---- MODULE Spec2Model ----
(***************************************************************************)
(* analogstick2wheel (src/src/main.rs): the session state shared by the    *)
(* main read loop and the re-sync timer thread, the wheel integrator and   *)
(* the pure helpers it is built from.                                      *)
(*                                                                         *)
(* Numbers.  f64 angles live on a grid of pi/P radians (P grid steps are   *)
(* half a turn), so PI, TAU and STEERING_STOP are exact grid values and    *)
(* atan2 rounds to the nearest grid angle.  Blend factors are per-mille    *)
(* (ONE = 1.0).  A product that leaves the grid is cut towards zero.       *)
(* Instants are kept as their age in milliseconds: last_wheel_report is    *)
(* the time since the Instant stored in Data.last_wheel_report, which is   *)
(* what every use of it in the source computes (elapsed / duration_since). *)
(* Diagnostics written with eprintln! are not part of the model.           *)
(***************************************************************************)
EXTENDS Integers, Sequences, FiniteSets, TLC

\* ---- model bounds -------------------------------------------------------
\* Milliseconds by which one Advance step moves the clock.
TickMs == 64
\* Age after which an Instant is no longer told apart (the blend factor is
\* already clamped to 0.2 there).
MaxElapsedMs == 128
\* Largest |angle| handed to the pure functions in FnSpec (grid steps).
MaxAngle == 9

\* ---- program constants --------------------------------------------------
\* std::f64::consts::PI in grid steps (one step is pi/4).
P == 4
\* std::f64::consts::TAU in grid steps.
T == 2 * P
\* std::f64::consts::TAU as a plain number, in thousandths.
TAU_MILLI == 6283
\* 1.0 as a per-mille blend factor.
ONE == 1000
\* the 0.2 cap of the easing blend factor, per-mille.
EASE_CAP == 200
STEERING_STOP == T * 3
MAX_MAGNITUDE == 32767
\* GRIP_THRESHOLD = 0.92 = 23/25
GRIP_NUM == 23
GRIP_DEN == 25
\* 0.0005 rad is below one grid step: |w| > 0.0005 iff |w| > 0 steps.
EPSILON == 0
DEBOUNCE_MS == 4
SLEEP_MS == 10
U16_MAX == 65535
\* size of the buffer the Err arm reads garbage into
GARBAGE_BUF == 256
\* tan(pi/8) and tan(3pi/8) in thousandths: the rounding points of atan2
\* on a grid of pi/4.
TAN_PI_8 == 414
TAN_3PI_8 == 2414

\* ---- input alphabet -----------------------------------------------------
\* Raw axis values the device reports.
AxisValues == {-32767, 0, 30000}

AbsoluteEvent(axis, value, time) ==
    [type |-> "ABS", code |-> axis, value |-> value, time |-> time]

SynchronizeEvent(kind, time) ==
    [type |-> "SYN", code |-> kind, value |-> 0, time |-> time]

KeyEvent(time) ==
    [type |-> "KEY", code |-> "BTN", value |-> 1, time |-> time]

AbsoluteInputs ==
    {AbsoluteEvent(ax, v, "ev") : ax \in {"X", "Y"}, v \in AxisValues}
        \cup {AbsoluteEvent("Z", 0, "ev")}

SynchronizeInputs == {SynchronizeEvent(k, "ev") : k \in {"REPORT", "CONFIG"}}

OtherInputs == {KeyEvent("ev")}

LoopErrors == {"Other", "EventCreation"}

\* Err(LoopError) as the value of `input`
ErrInput(e) == [type |-> "ERR", code |-> e, value |-> 0, time |-> "ev"]

\* what io::stdin().read(&mut buf) of the Err arm can return: nothing
\* pending, one further record, the whole 256-byte buffer
GarbageReads == {0, 24, GARBAGE_BUF}

\* ---- small arithmetic ---------------------------------------------------
Abs(n) == IF n < 0 THEN -n ELSE n

Min(a, b) == IF a < b THEN a ELSE b

\* f64::clamp
Clamp(v, lo, hi) == IF v < lo THEN lo ELSE IF v > hi THEN hi ELSE v

\* f64::trunc of a / b, b > 0
TruncDiv(a, b) == IF a >= 0 THEN a \div b ELSE -((-a) \div b)

\* atan2 for y, x >= 0, not both 0: 0, pi/4 or pi/2, whichever is nearest
Atan2Quadrant(y, x) ==
    IF y * 1000 < TAN_PI_8 * x THEN 0
    ELSE IF y * 1000 < TAN_3PI_8 * x THEN 1
    ELSE 2

\* f64::atan2 on the grid; atan2(0, 0) = 0 and atan2(+0, x < 0) = +pi
Atan2(y, x) ==
    IF x = 0 /\ y = 0 THEN 0
    ELSE LET q == Atan2Quadrant(Abs(y), Abs(x))
         IN  IF x >= 0 /\ y >= 0 THEN q
             ELSE IF x < 0 /\ y >= 0 THEN P - q
             ELSE IF x < 0 THEN q - P
             ELSE -q

\* ---- Frame / ProcessedFrame --------------------------------------------
Option(v) == <<v>>

None == <<>>

DefaultFrame == [x |-> 0, y |-> 0, state |-> "Freewheel"]

DefaultProcessedFrame ==
    [inner |-> DefaultFrame, analog_angle |-> None, analog_magnitude |-> 0]

\* floor(GRIP_THRESHOLD^2 * MAX_MAGNITUDE^2), computed without overflow:
\* mag > GRIP_THRESHOLD iff x^2 + y^2 > GripLimitSq
GripLimitSq ==
    LET m2 == MAX_MAGNITUDE * MAX_MAGNITUDE
        n2 == GRIP_NUM * GRIP_NUM
        d2 == GRIP_DEN * GRIP_DEN
    IN  n2 * (m2 \div d2) + (n2 * (m2 % d2)) \div d2

\* Frame::analyze: (angle, magnitude, state).  The magnitude is kept as
\* its square in raw axis units, mag^2 * MAX_MAGNITUDE^2 = x^2 + y^2.
analyze(f) ==
    LET sq == f.x * f.x + f.y * f.y
    IN  [angle |-> Atan2(f.y, f.x),
         mag   |-> sq,
         state |-> IF sq > GripLimitSq THEN "Gripped" ELSE "Freewheel"]

\* Frame::resolve: the frame with its state set
resolve(f) == [f EXCEPT !.state = analyze(f).state]

\* mutant of FromFrame: the frame is stored without resolve
FromFrameUnresolved(f) ==
    [inner |-> f,
     analog_angle |-> Option(analyze(f).angle),
     analog_magnitude |-> analyze(f).mag]

\* ProcessedFrame::from
FromFrame(f) ==
    [inner |-> resolve(f),
     analog_angle |-> Option(analyze(f).angle),
     analog_magnitude |-> analyze(f).mag]

\* ---- pure functions -----------------------------------------------------
\* mutant of lerp: blends away from the target
LerpAway(from, to, t) ==
    LET tc == Clamp(t, 0, ONE)
    IN  TruncDiv((ONE + tc) * from - tc * to, ONE)

lerp(from, to, t) ==
    LET tc == Clamp(t, 0, ONE)
    IN  TruncDiv((ONE - tc) * from + tc * to, ONE)

\* mutant of CsdAddLoop: the first loop runs at most once
CsdAddOnce(r) == IF r > -P THEN r ELSE r + T

\* first loop of cyclic_signed_distance
RECURSIVE CsdAddLoop(_)
CsdAddLoop(r) == IF r > -P THEN r ELSE CsdAddLoop(r + T)

\* mutant of CsdSubLoop: the second loop stops at r <= P
RECURSIVE CsdSubLoopClosed(_)
CsdSubLoopClosed(r) == IF r <= P THEN r ELSE CsdSubLoopClosed(r - T)

\* second loop of cyclic_signed_distance
RECURSIVE CsdSubLoop(_)
CsdSubLoop(r) == IF r < P THEN r ELSE CsdSubLoop(r - T)

\* mutant of cyclic_signed_distance: the operands of the subtraction swapped
CsdSwapped(a, b) == CsdSubLoop(CsdAddLoop(b - a))

\* mutant of cyclic_signed_distance: the absolute stick angle
CsdAbsolute(a, b) == CsdSubLoop(CsdAddLoop(a))

cyclic_signed_distance(a, b) == CsdSubLoop(CsdAddLoop(a - b))

\* (TAU/4) * d_t as a per-mille factor, d_t in milliseconds
EaseRate(d_t) == (TAU_MILLI * d_t) \div (4 * 1000)

\* mutant of easing: the blend factor is not capped
EasingUncapped(cur_wheel_angle, d_t) ==
    lerp(cur_wheel_angle, 0, EaseRate(d_t))

easing(cur_wheel_angle, d_t) ==
    lerp(cur_wheel_angle, 0, Clamp(EaseRate(d_t), 0, EASE_CAP))

\* mutant of ClampToStops: no clamp
NoClampToStops(v) == v

\* the final .clamp(-STEERING_STOP, STEERING_STOP)
ClampToStops(v) == Clamp(v, -STEERING_STOP, STEERING_STOP)

wheel_behaviour(cur_wheel_angle, c, p, d_t) ==
    LET stepped ==
            IF c.analog_angle = None THEN easing(cur_wheel_angle, d_t)
            ELSE IF p.inner.state = "Gripped" /\ c.inner.state = "Gripped"
                 THEN LET da == IF p.analog_angle = None THEN 0
                                ELSE cyclic_signed_distance(c.analog_angle[1],
                                                            p.analog_angle[1])
                      IN  da + cur_wheel_angle
                 ELSE easing(cur_wheel_angle, d_t)
    IN  ClampToStops(stepped)

HALF_U16 == U16_MAX \div 2

\* mutant of quantize_wheel_angle: floor instead of trunc
QuantizeFloor(angle) == HALF_U16 + (HALF_U16 * angle) \div STEERING_STOP

\* mutant of quantize_wheel_angle: the scaled angle is subtracted
QuantizeReversed(angle) ==
    HALF_U16 - TruncDiv(HALF_U16 * angle, STEERING_STOP)

quantize_wheel_angle(angle) ==
    HALF_U16 + TruncDiv(HALF_U16 * angle, STEERING_STOP)

\* mutant of write_output_event: the closing report record is missing
WriteAxisOnly(axis_value, timestamp) ==
    <<AbsoluteEvent("X", axis_value, timestamp)>>

\* the two records of one write_all call
write_output_event(axis_value, timestamp) ==
    <<AbsoluteEvent("X", axis_value, timestamp),
      SynchronizeEvent("REPORT", timestamp)>>

\* ---- state --------------------------------------------------------------
VARIABLES
    prev,               \* Data.prev
    cur,                \* Data.cur
    wheel_angle,        \* Data.wheel_angle
    last_wheel_report,  \* age of Data.last_wheel_report, ms
    lock,               \* the RwLock: "free", "main" or "timer" (writers)
    out,                \* records of the latest write_all to stdout
    m_pc,               \* main loop: "read", "ticked", "flush"
    m_input,            \* main loop: the input of this iteration
    m_garbage,          \* main loop: bytes the Err arm read and threw away
    m_processed,        \* main loop: the value tick returned
    t_pc,               \* timer: "check", "lock", "ticked", "sleep"
    t_slept,            \* timer: ms slept so far in thread::sleep
    report_wheel,       \* history: wheel angle after the latest input
                        \* report if that report was Gripped
    fn_pc, fn_a, fn_b, fn_r,  \* FnSpec: a call of a pure function
    fn_q                \* FnSpec: quantize_wheel_angle of fn_a and of fn_b

vars == <<prev, cur, wheel_angle, last_wheel_report, lock, out, m_pc,
          m_input, m_garbage, m_processed, t_pc, t_slept, report_wheel,
          fn_pc, fn_a, fn_b, fn_r, fn_q>>

dataVars == <<prev, cur, wheel_angle, last_wheel_report>>

fnVars == <<fn_pc, fn_a, fn_b, fn_r, fn_q>>

\* what the timer thread and the clock leave alone of the main loop
mainLocals == <<m_pc, m_input, m_garbage, m_processed>>

ProgInit ==
    /\ prev = DefaultProcessedFrame
    /\ cur = DefaultFrame
    /\ wheel_angle = 0
    /\ last_wheel_report = 0
    /\ lock = "free"
    /\ out = <<>>
    /\ m_pc = "read"
    /\ m_input = None
    /\ m_garbage = 0
    /\ m_processed = None
    /\ t_pc = "check"
    /\ t_slept = 0
    /\ report_wheel = None

Init ==
    /\ ProgInit
    /\ fn_pc = "off" /\ fn_a = 0 /\ fn_b = 0 /\ fn_r = 0 /\ fn_q = <<>>

\* ---- the tick closure ---------------------------------------------------
\* what tick does to the state it is given and to stdout
tick(event) ==
    IF event.code = "REPORT"
    THEN LET processed == FromFrame(cur)
             angle == wheel_behaviour(wheel_angle, processed, prev,
                                      last_wheel_report)
             axis_val == quantize_wheel_angle(angle)
         IN  /\ wheel_angle' = angle
             /\ out' = write_output_event(axis_val, event.time)
    ELSE /\ out' = <<event>>
         /\ UNCHANGED wheel_angle

\* what tick returns
tick_result(event) ==
    IF event.code = "REPORT" THEN Option(FromFrame(cur)) ELSE None

\* mutant of WriteLockFree: the write lock excludes nobody
WriteLockAlways == TRUE

\* RwLock::write succeeds
WriteLockFree == lock = "free"

\* RwLock::read succeeds
ReadLockFree == lock = "free"

\* ---- main read loop -----------------------------------------------------
\* mutant of MainAbsolute: an X or Y update clears the other axis
MainAbsoluteBoth(event) ==
    /\ m_pc = "read"
    /\ WriteLockFree
    /\ IF event.code = "X"
       THEN cur' = [cur EXCEPT !.x = event.value, !.y = 0] /\ UNCHANGED out
       ELSE IF event.code = "Y"
       THEN cur' = [cur EXCEPT !.y = event.value, !.x = 0] /\ UNCHANGED out
       ELSE out' = <<event>> /\ UNCHANGED cur
    /\ m_input' = Option(event)
    /\ m_pc' = "flush"
    /\ UNCHANGED <<prev, wheel_angle, last_wheel_report, lock, m_garbage,
                   m_processed, t_pc, t_slept, report_wheel, fnVars>>

\* Event::Absolute arm; the write lock is taken and dropped inside
MainAbsolute(event) ==
    /\ m_pc = "read"
    /\ WriteLockFree
    /\ IF event.code = "X"
       THEN cur' = [cur EXCEPT !.x = event.value] /\ UNCHANGED out
       ELSE IF event.code = "Y"
       THEN cur' = [cur EXCEPT !.y = event.value] /\ UNCHANGED out
       ELSE out' = <<event>> /\ UNCHANGED cur
    /\ m_input' = Option(event)
    /\ m_pc' = "flush"
    /\ UNCHANGED <<prev, wheel_angle, last_wheel_report, lock, m_garbage,
                   m_processed, t_pc, t_slept, report_wheel, fnVars>>

\* Event::Synchronize arm up to the return of tick; the write lock is held
MainSynchronize(event) ==
    /\ m_pc = "read"
    /\ WriteLockFree
    /\ tick(event)
    /\ m_processed' = tick_result(event)
    /\ m_input' = Option(event)
    /\ lock' = "main"
    /\ m_pc' = "ticked"
    /\ UNCHANGED <<prev, cur, last_wheel_report, m_garbage, t_pc, t_slept,
                   report_wheel, fnVars>>

\* the rest of the Event::Synchronize arm, to the end of the lock's scope
MainStorePrev ==
    /\ m_pc = "ticked"
    /\ IF m_processed # None
       THEN /\ prev' = m_processed[1]
            /\ last_wheel_report' = 0
            /\ report_wheel' = IF m_processed[1].inner.state = "Gripped"
                               THEN Option(wheel_angle) ELSE None
       ELSE UNCHANGED <<prev, last_wheel_report, report_wheel>>
    /\ m_processed' = None
    /\ lock' = "free"
    /\ m_pc' = "flush"
    /\ UNCHANGED <<cur, wheel_angle, out, m_input, m_garbage, t_pc, t_slept,
                   fnVars>>

\* mutant of MainPassThrough: the record is written with its value cleared
MainPassThroughZeroed(event) ==
    /\ m_pc = "read"
    /\ WriteLockFree
    /\ out' = <<[event EXCEPT !.value = 0]>>
    /\ m_input' = Option(event)
    /\ m_pc' = "flush"
    /\ UNCHANGED <<dataVars, lock, m_garbage, m_processed, t_pc, t_slept,
                   report_wheel, fnVars>>

\* any other event: written through unchanged
MainPassThrough(event) ==
    /\ m_pc = "read"
    /\ WriteLockFree
    /\ out' = <<event>>
    /\ m_input' = Option(event)
    /\ m_pc' = "flush"
    /\ UNCHANGED <<dataVars, lock, m_garbage, m_processed, t_pc, t_slept,
                   report_wheel, fnVars>>

\* mutant of MainErr: the error leaves the loop
MainErrExit(e) ==
    /\ m_pc = "read"
    /\ e \in LoopErrors
    /\ m_input' = Option(ErrInput(e))
    /\ m_pc' = "exit"
    /\ UNCHANGED <<dataVars, lock, out, m_garbage, m_processed, t_pc, t_slept,
                   report_wheel, fnVars>>

\* Err arm: the event is dropped; after a failed read up to 256 further
\* bytes of stdin are read and thrown away
MainErr(e) ==
    /\ m_pc = "read"
    /\ e \in LoopErrors
    /\ m_input' = Option(ErrInput(e))
    /\ IF e = "Other"
       THEN \E n \in GarbageReads : m_garbage' = n
       ELSE UNCHANGED m_garbage
    /\ m_pc' = "flush"
    /\ UNCHANGED <<dataVars, lock, out, m_processed, t_pc, t_slept,
                   report_wheel, fnVars>>

\* io::stdout().flush() and back to the read
MainFlush ==
    /\ m_pc = "flush"
    /\ m_pc' = "read"
    /\ m_input' = None
    /\ m_garbage' = 0
    /\ UNCHANGED <<dataVars, lock, out, m_processed, t_pc, t_slept,
                   report_wheel, fnVars>>

\* ---- re-sync timer thread -----------------------------------------------
\* mutant of TimerGate: the debounce comparison is inverted
TimerGateInverted ==
    /\ Abs(wheel_angle) > EPSILON
    /\ prev.inner.state = "Freewheel"
    /\ last_wheel_report < DEBOUNCE_MS

\* the gate on the cloned state
TimerGate ==
    /\ Abs(wheel_angle) > EPSILON
    /\ prev.inner.state = "Freewheel"
    /\ last_wheel_report > DEBOUNCE_MS

\* clone under the read lock and decide.  The clone, the gate and the
\* clock read of the debounce test work on the thread's own copy, so they
\* are one step; what the main loop does before the write lock is taken
\* falls between this step and TimerForce.
TimerCheck ==
    /\ t_pc = "check"
    /\ ReadLockFree
    /\ t_pc' = IF TimerGate THEN "lock" ELSE "sleep"
    /\ UNCHANGED <<dataVars, lock, out, mainLocals, t_slept, report_wheel,
                   fnVars>>

\* take the write lock and run tick with a fresh timestamp
TimerForce ==
    /\ t_pc = "lock"
    /\ WriteLockFree
    /\ tick(SynchronizeEvent("REPORT", "wall"))
    /\ lock' = "timer"
    /\ t_pc' = "ticked"
    /\ UNCHANGED <<prev, cur, last_wheel_report, mainLocals, t_slept,
                   report_wheel, fnVars>>

\* state.last_wheel_report = Instant::now(), then the guard drops
TimerStamp ==
    /\ t_pc = "ticked"
    /\ last_wheel_report' = 0
    /\ lock' = "free"
    /\ t_pc' = "sleep"
    /\ UNCHANGED <<prev, cur, wheel_angle, out, mainLocals, t_slept,
                   report_wheel, fnVars>>

\* thread::sleep returns
TimerWake ==
    /\ t_pc = "sleep"
    /\ t_slept >= SLEEP_MS
    /\ t_pc' = "check"
    /\ t_slept' = 0
    /\ UNCHANGED <<dataVars, lock, out, mainLocals, report_wheel, fnVars>>

\* ---- time ---------------------------------------------------------------
Advance ==
    /\ last_wheel_report' = Min(last_wheel_report + TickMs, MaxElapsedMs)
    /\ t_slept' = IF t_pc = "sleep" THEN Min(t_slept + TickMs, SLEEP_MS)
                  ELSE t_slept
    /\ UNCHANGED <<prev, cur, wheel_angle, lock, out, mainLocals, t_pc,
                   report_wheel, fnVars>>

MainNext ==
    \/ \E event \in AbsoluteInputs : MainAbsolute(event)
    \/ \E event \in SynchronizeInputs : MainSynchronize(event)
    \/ MainStorePrev
    \/ \E event \in OtherInputs : MainPassThrough(event)
    \/ \E e \in LoopErrors : MainErr(e)
    \/ MainFlush

TimerNext ==
    \/ TimerCheck
    \/ TimerForce
    \/ TimerStamp
    \/ TimerWake

Next ==
    \/ MainNext
    \/ TimerNext
    \/ Advance

Spec == Init /\ [][Next]_vars

\* ---- fairness: the timer thread is scheduled and time passes -----------
\* The stick is moved between full deflection and the origin and reported;
\* nothing else is sent.
LiveAxisValues == {-32767, 0}

LiveAbsoluteInputs ==
    {AbsoluteEvent(ax, v, "ev") : ax \in {"X", "Y"}, v \in LiveAxisValues}

LiveNext ==
    \/ \E event \in LiveAbsoluteInputs : MainAbsolute(event)
    \/ MainSynchronize(SynchronizeEvent("REPORT", "ev"))
    \/ MainStorePrev
    \/ MainFlush
    \/ TimerCheck
    \/ TimerForce
    \/ TimerStamp
    \/ TimerWake
    \/ Advance

LiveSpec ==
    Init /\ [][LiveNext]_vars /\ WF_vars(TimerNext) /\ WF_vars(Advance)

\* ---- calls of the pure functions on bounded inputs ---------------------
Angles == (-MaxAngle) .. MaxAngle

\* every wheel angle between the steering stops
WheelAngles == (-STEERING_STOP) .. STEERING_STOP

FnInit ==
    /\ ProgInit
    /\ fn_pc = "call"
    /\ fn_a \in Angles \cup WheelAngles
    /\ fn_b \in Angles \cup WheelAngles
    /\ fn_r = 0
    /\ fn_q = <<>>

FnCsd ==
    /\ fn_pc = "call"
    /\ fn_a \in Angles /\ fn_b \in Angles
    /\ fn_r' = cyclic_signed_distance(fn_a, fn_b)
    /\ fn_pc' = "done"
    /\ UNCHANGED <<dataVars, lock, out, mainLocals, t_pc, t_slept,
                   report_wheel, fn_a, fn_b, fn_q>>

FnQuantize ==
    /\ fn_pc = "call"
    /\ fn_a \in WheelAngles /\ fn_b \in WheelAngles
    /\ fn_q' = <<quantize_wheel_angle(fn_a), quantize_wheel_angle(fn_b)>>
    /\ fn_pc' = "quantized"
    /\ UNCHANGED <<dataVars, lock, out, mainLocals, t_pc, t_slept,
                   report_wheel, fn_a, fn_b, fn_r>>

FnNext == FnCsd \/ FnQuantize

FnSpec == FnInit /\ [][FnNext]_vars

\* ---- steps the claims speak about --------------------------------------
\* the main loop runs tick on a Synchronize/report
MainReportStep == m_pc = "read" /\ m_pc' = "ticked" /\ m_processed' # None

\* the main loop finishes a Synchronize/report
MainReportDone == m_pc = "ticked" /\ m_processed # None /\ m_pc' = "flush"

\* the timer runs its forced report
TimerForceStep == t_pc = "lock" /\ t_pc' = "ticked"

\* the timer finishes its forced report
TimerForceDone == t_pc = "ticked" /\ t_pc' = "sleep"

\* C1: in every reachable state the wheel angle lies within the steering
\* stops, -STEERING_STOP <= wheel_angle <= STEERING_STOP.
C1_WheelWithinStops ==
    wheel_angle >= -STEERING_STOP /\ wheel_angle <= STEERING_STOP

\* a Gripped -> Gripped report has driven the wheel onto a stop
C1_Witness ==
    /\ Abs(wheel_angle) = STEERING_STOP
    /\ m_pc = "ticked"
    /\ prev.inner.state = "Gripped"
    /\ m_processed # None /\ m_processed[1].inner.state = "Gripped"
    /\ m_processed[1].analog_angle # prev.analog_angle

\* C2: whenever the timer runs its forced report, the gate it checked on
\* the clone still holds of the state it mutates: wheel off centre, the
\* stored previous frame Freewheel, and the debounce interval elapsed.
C2_GateHoldsAtForce == [][TimerForceStep => TimerGate]_vars

\* C3: a Gripped input report that follows a Gripped input report leaves
\* the wheel at the angle after the first report plus the cyclic signed
\* distance between the two stick angles, clamped to the stops.
C3_DeltaAppliedOnce ==
    [][(/\ MainReportStep
        /\ report_wheel # None
        /\ FromFrame(cur).inner.state = "Gripped")
       => wheel_angle' =
            Clamp(report_wheel[1]
                    + cyclic_signed_distance(FromFrame(cur).analog_angle[1],
                                             prev.analog_angle[1]),
                  -STEERING_STOP, STEERING_STOP)]_vars

\* C4: when a pipeline run that synthesized a report is finished, by the
\* main loop or by the timer, prev is the frame classified in that run and
\* last_wheel_report is fresh.
C4_PrevAndInstantRefreshed ==
    [][(MainReportDone \/ TimerForceDone)
       => (prev' = FromFrame(cur) /\ last_wheel_report' = 0)]_vars

\* C5: the main loop and the timer are never both inside an integrator
\* step; prev changes only in the main loop's step that ends the critical
\* section in which tick produced the new frame; and the timer neither
\* reads nor writes the state while the main loop is between its
\* wheel_angle update and its prev update.
C5_StepsExclusive ==
    /\ [](~(m_pc = "ticked" /\ t_pc = "ticked"))
    /\ [][prev' # prev
            => (MainReportDone /\ lock = "main" /\ prev' = m_processed[1])]_vars
    /\ [][(t_pc' # t_pc /\ t_pc \in {"check", "lock"})
            => m_pc # "ticked"]_vars

\* the timer waits for the write lock while the main loop is between its
\* wheel_angle update and its prev update
C5_Witness ==
    /\ m_pc = "ticked" /\ lock = "main" /\ t_pc = "lock"
    /\ m_processed # None /\ m_processed[1] # prev

\* C6: with the stored previous frame Freewheel, the wheel off centre and
\* the main loop blocked in the read, the wheel angle eventually drops to
\* epsilon or below unless another input arrives first.
C6_WheelRelaxes ==
    (m_pc = "read" /\ prev.inner.state = "Freewheel"
        /\ Abs(wheel_angle) > EPSILON)
    ~> (Abs(wheel_angle) <= EPSILON \/ m_pc # "read")

\* a forced report of the timer has brought the wheel to the centre while
\* the main loop sat in the read
C6_Witness ==
    /\ t_pc = "ticked" /\ m_pc = "read"
    /\ prev.inner.state = "Freewheel"
    /\ Abs(wheel_angle) <= EPSILON
    /\ Len(out) = 2 /\ out[1].time = "wall"

\* C7: with the stick at the origin, every report step (input or forced)
\* with positive elapsed time and a nonzero wheel angle makes |wheel_angle|
\* strictly smaller and does not take the wheel to the other side of zero.
C7_EasingStrict ==
    [][(/\ MainReportStep \/ TimerForceStep
        /\ cur.x = 0 /\ cur.y = 0
        /\ last_wheel_report > 0
        /\ wheel_angle # 0)
       => (/\ Abs(wheel_angle') < Abs(wheel_angle)
           /\ wheel_angle' * wheel_angle >= 0)]_vars

\* an easing step with the stick at the origin has left the wheel off
\* centre, after a Gripped frame
C7_Witness ==
    /\ m_pc = "ticked" /\ cur.x = 0 /\ cur.y = 0
    /\ prev.inner.state = "Gripped"
    /\ wheel_angle # 0 /\ last_wheel_report > 0

\* C8: a Gripped -> Gripped report step whose stick angle equals the
\* previous frame's stick angle leaves the wheel angle unchanged.
C8_HeldStickKeepsWheel ==
    [][(/\ MainReportStep \/ TimerForceStep
        /\ prev.inner.state = "Gripped"
        /\ FromFrame(cur).inner.state = "Gripped"
        /\ FromFrame(cur).analog_angle = prev.analog_angle)
       => wheel_angle' = wheel_angle]_vars

\* a Gripped report at the previous frame's nonzero stick angle, wheel off
\* centre
C8_Witness ==
    /\ m_pc = "ticked" /\ prev.inner.state = "Gripped"
    /\ m_processed # None /\ m_processed[1].inner.state = "Gripped"
    /\ m_processed[1].analog_angle = prev.analog_angle
    /\ prev.analog_angle # Option(0)
    /\ wheel_angle # 0

\* C9 as stated: cyclic_signed_distance(a, b) = -cyclic_signed_distance(b, a)
\* for all a and b.
C9_Antisymmetric ==
    fn_pc = "done" => fn_r = -cyclic_signed_distance(fn_b, fn_a)

\* C9 amended: antisymmetric for all a and b that are not exactly half a
\* turn apart; for a and b half a turn apart both orders give -pi.
C9_AntisymmetricOffHalfTurn ==
    fn_pc = "done" =>
        IF (fn_a - fn_b) % T = P
        THEN fn_r = -P /\ cyclic_signed_distance(fn_b, fn_a) = -P
        ELSE fn_r = -cyclic_signed_distance(fn_b, fn_a)

\* a call across the wrap with a nonzero result, and its mirror differs
C9_Witness ==
    /\ fn_pc = "done" /\ fn_a - fn_b > P /\ (fn_a - fn_b) % T # P
    /\ fn_r < 0

\* C10 as stated: the result is congruent to a - b modulo 2 pi and lies in
\* the open interval (-pi, pi).
C10_OpenInterval ==
    fn_pc = "done" =>
        /\ (fn_r - (fn_a - fn_b)) % T = 0
        /\ fn_r > -P /\ fn_r < P

\* C10 amended: the result is congruent to a - b modulo 2 pi and lies in
\* the half-open interval [-pi, pi).
C10_HalfOpenInterval ==
    fn_pc = "done" =>
        /\ (fn_r - (fn_a - fn_b)) % T = 0
        /\ fn_r >= -P /\ fn_r < P

\* the first loop ran more than once and the result is the boundary -pi
C10_Witness ==
    fn_pc = "done" /\ fn_a - fn_b = -(P + T) /\ fn_r = -P

\* ---- more steps the claims speak about ----------------------------------
\* the main loop takes an input from stdin; m_input' is that input
MainReadStep == m_pc = "read" /\ m_pc' # "read"

\* the input the main loop is handling in a step of its own
MainStepInput == IF m_pc = "read" THEN m_input' ELSE m_input

\* an event the match arms write through: not ABS_X, ABS_Y, SYN_REPORT
PassThroughEvent(e) ==
    /\ e.type # "ERR"
    /\ ~(e.type = "ABS" /\ e.code \in {"X", "Y"})
    /\ ~(e.type = "SYN" /\ e.code = "REPORT")

\* a just below +pi, b just above -pi, more than half a turn apart
AcrossWrap == fn_a > 0 /\ fn_a < P /\ fn_b < 0 /\ fn_b > -P /\ fn_a - fn_b > P

\* C11 as stated: for a just below +pi and b just above -pi the result is
\* the small positive angle 2 pi - (a - b).
C11_WrapPositive ==
    (fn_pc = "done" /\ AcrossWrap) => fn_r = T - (fn_a - fn_b)

\* C11 amended: for a just below +pi and b just above -pi the result is the
\* small negative angle (a - b) - 2 pi; the small positive angle
\* 2 pi - (a - b) is the distance with the arguments the other way round.
C11_WrapNegative ==
    (fn_pc = "done" /\ AcrossWrap) =>
        /\ fn_r = (fn_a - fn_b) - T
        /\ fn_r < 0 /\ fn_r > -P
        /\ cyclic_signed_distance(fn_b, fn_a) = T - (fn_a - fn_b)

\* the grid's nearest pair to (179, -179) degrees
C11_Witness ==
    fn_pc = "done" /\ fn_a = P - 1 /\ fn_b = 1 - P /\ fn_r = -2

\* C12 as stated: quantize_wheel_angle(w) = midpoint + floor(half_range /
\* STEERING_STOP * w) for every w between the stops.
C12_QuantizeIsFloor ==
    fn_pc = "quantized" =>
        fn_q[1] = HALF_U16 + (HALF_U16 * fn_a) \div STEERING_STOP

\* C12 amended: the scaled angle is cut towards zero: the result is the
\* floor formula for w >= 0 and for an integer scaled value, and one more
\* than the floor formula for a negative w whose scaled value is not an
\* integer.
C12_QuantizeIsTrunc ==
    fn_pc = "quantized" =>
        LET scaled == HALF_U16 * fn_a
            floored == scaled \div STEERING_STOP
        IN  fn_q[1] = HALF_U16
                        + (IF fn_a < 0 /\ scaled % STEERING_STOP # 0
                           THEN floored + 1 ELSE floored)

\* a negative angle whose scaled value, -1365.29.., is not an integer
C12_Witness ==
    fn_pc = "quantized" /\ fn_a = -1 /\ fn_q[1] = HALF_U16 - 1365

\* C13: between the stops the quantizer is monotonic, w1 < w2 implies
\* quantize(w1) <= quantize(w2), and every result is in 0 .. 65535.
C13_QuantizeMonotone ==
    fn_pc = "quantized" =>
        /\ fn_q[1] >= 0 /\ fn_q[1] <= U16_MAX
        /\ fn_q[2] >= 0 /\ fn_q[2] <= U16_MAX
        /\ fn_a < fn_b => fn_q[1] <= fn_q[2]

\* the two stops, quantized to the ends of the range that is used
C13_Witness ==
    /\ fn_pc = "quantized"
    /\ fn_a = -STEERING_STOP /\ fn_b = STEERING_STOP
    /\ fn_q = <<0, 2 * HALF_U16>>

\* C14: while the thread that ran a report trigger is still in its critical
\* section, the latest write to stdout is exactly two records: ABS_X with
\* the quantized value of the wheel angle just stored, then SYN_REPORT with
\* the same timestamp (the event's, or the wall clock for the timer).
C14_ReportPair ==
    ((m_pc = "ticked" /\ m_processed # None) \/ t_pc = "ticked") =>
        /\ Len(out) = 2
        /\ out[1].type = "ABS" /\ out[1].code = "X"
        /\ out[1].value = quantize_wheel_angle(wheel_angle)
        /\ out[2].type = "SYN" /\ out[2].code = "REPORT"
        /\ out[2].time = out[1].time
        /\ out[1].time = IF t_pc = "ticked" THEN "wall" ELSE m_input[1].time

\* the timer's pair was written while the main loop, having written a
\* passed-through record, had not yet flushed
C14_Witness ==
    /\ t_pc = "ticked" /\ m_pc = "flush"
    /\ m_input # None /\ PassThroughEvent(m_input[1])
    /\ Len(out) = 2 /\ out[1].time = "wall"
    /\ out[1].value # HALF_U16

\* C15: the step that takes a pass-through event from the input writes
\* exactly that record, alone and unmodified; and a pass-through record
\* reaches stdout only in such a step, so the records leave in the order
\* in which the single read loop took them.
C15_PassThroughOnce ==
    [][/\ (MainReadStep /\ PassThroughEvent(m_input'[1]))
            => out' = <<m_input'[1]>>
       /\ (out' # out /\ \E i \in 1 .. Len(out') : PassThroughEvent(out'[i]))
            => (MainReadStep /\ out' = <<m_input'[1]>>)]_vars

\* a key event went through
C15_Witness ==
    /\ m_pc = "flush" /\ m_input # None
    /\ m_input[1].type = "KEY" /\ m_input[1].value = 1
    /\ out = <<m_input[1]>>

\* the main loop takes an Err from the input
MainErrStep == MainReadStep /\ m_input'[1].type = "ERR"

\* C16 as stated: an error never ends the loop, writes nothing, leaves the
\* session state alone, and takes nothing of the input that follows.
C16_ErrorTakesNothing ==
    [][MainErrStep
        => (/\ UNCHANGED <<dataVars, out>>
            /\ m_pc' = "flush"
            /\ m_garbage' = 0)]_vars

\* C16 amended: an error never ends the loop, writes nothing and leaves the
\* session state alone; the loop flushes and reads again.  After a decode
\* error up to 256 bytes of the input that follows are read and thrown
\* away first; a RangeError takes nothing.
C16_ErrorKeepsLoop ==
    /\ [](m_pc \in {"read", "ticked", "flush"})
    /\ [][MainErrStep
           => (/\ UNCHANGED <<dataVars, out>>
               /\ m_pc' = "flush"
               /\ m_garbage' >= 0 /\ m_garbage' <= GARBAGE_BUF
               /\ m_input'[1].code = "EventCreation" => m_garbage' = 0)]_vars
    /\ [][(m_pc = "flush" /\ m_pc' # m_pc)
           => (m_pc' = "read" /\ m_input' = None)]_vars

\* a decode error with the whole garbage window taken, wheel off centre
C16_Witness ==
    /\ m_pc = "flush" /\ m_input = Option(ErrInput("Other"))
    /\ m_garbage = GARBAGE_BUF
    /\ wheel_angle # 0

\* C17: a report step whose (previous, current) states are not (Gripped,
\* Gripped) sets the wheel angle to (1 - t) * wheel_angle with
\* t = min(elapsed * TAU/4, 0.2), whatever the stick angle, so that at
\* most 20% of the wheel angle (and the cut to the grid) is removed.
C17_EasingOnly ==
    [][(/\ MainReportStep \/ TimerForceStep
        /\ ~(prev.inner.state = "Gripped" /\ analyze(cur).state = "Gripped"))
       => LET rate == (TAU_MILLI * last_wheel_report) \div (4 * 1000)
              t == IF rate > EASE_CAP THEN EASE_CAP ELSE rate
          IN  /\ wheel_angle' = TruncDiv((ONE - t) * wheel_angle, ONE)
              /\ ONE * Abs(wheel_angle')
                    > (ONE - EASE_CAP) * Abs(wheel_angle) - ONE]_vars

\* Gripped -> Freewheel after the longest elapsed time, stick off the
\* origin, wheel still off centre
C17_Witness ==
    /\ m_pc = "ticked" /\ m_processed # None
    /\ last_wheel_report = MaxElapsedMs
    /\ prev.inner.state = "Gripped"
    /\ m_processed[1].inner.state = "Freewheel"
    /\ m_processed[1].analog_angle # Option(0)
    /\ wheel_angle # 0

\* C18: a forced report of the timer never moves the wheel away from the
\* centre: |wheel_angle| after it is at most |wheel_angle| before it.
C18_TimerOnlyEases ==
    [][TimerForceStep => Abs(wheel_angle') <= Abs(wheel_angle)]_vars

\* C19: an ABS_X (ABS_Y) input changes cur.x (cur.y) and nothing else of
\* the session state and writes nothing; and no step the main loop takes
\* for an input other than SYN_REPORT changes wheel_angle, prev or
\* last_wheel_report.
C19_OnlyReportsMoveWheel ==
    [][/\ (MainReadStep /\ m_input'[1].type = "ABS" /\ m_input'[1].code = "X")
            => (/\ cur' = [cur EXCEPT !.x = m_input'[1].value]
                /\ UNCHANGED <<prev, wheel_angle, last_wheel_report, out>>)
       /\ (MainReadStep /\ m_input'[1].type = "ABS" /\ m_input'[1].code = "Y")
            => (/\ cur' = [cur EXCEPT !.y = m_input'[1].value]
                /\ UNCHANGED <<prev, wheel_angle, last_wheel_report, out>>)
       /\ (/\ m_pc' # m_pc
           /\ MainStepInput # None
           /\ ~(MainStepInput[1].type = "SYN"
                    /\ MainStepInput[1].code = "REPORT"))
            => UNCHANGED <<wheel_angle, prev, last_wheel_report>>]_vars

\* an ABS_X update with the other axis deflected and the wheel off centre
C19_Witness ==
    /\ m_pc = "flush" /\ m_input # None
    /\ m_input[1].type = "ABS" /\ m_input[1].code = "X"
    /\ cur.x = m_input[1].value /\ cur.x # prev.inner.x
    /\ cur.y # 0
    /\ wheel_angle # 0

\* C20: the stored previous frame is well-formed: its state is Freewheel or
\* Gripped, it is Gripped exactly when the magnitude of its own x, y is
\* above GRIP_THRESHOLD, and a Gripped previous frame has its angle.
C20_PrevWellFormed ==
    /\ prev.inner.state \in {"Freewheel", "Gripped"}
    /\ prev.inner.state = "Gripped"
        <=> prev.inner.x * prev.inner.x + prev.inner.y * prev.inner.y
                > GripLimitSq
    /\ prev.inner.state = "Gripped" => prev.analog_angle # None

\* the Gripped -> Gripped branch ran with the previous angle present
C20_Witness ==
    /\ m_pc = "ticked" /\ m_processed # None
    /\ prev.inner.state = "Gripped" /\ prev.analog_angle # None
    /\ m_processed[1].inner.state = "Gripped"
    /\ m_processed[1].analog_angle # prev.analog_angle

====
